---- MODULE Spec2Model ----
(***************************************************************************)
(* A model of the PragyanAI resume portal: the Streamlit session state     *)
(* driven by main_app.py (login, dispatch to a dashboard), the log-out     *)
(* handlers of hiring_dashboard.py and candidate_dashboard.py, and the     *)
(* candidate dashboard's text glue: the regex that pulls a fit score out   *)
(* of an LLM reply, the sort and rank of batch-match results, the          *)
(* extraction of a JSON object from an LLM reply and the JSON export.      *)
(*                                                                         *)
(* Text is modelled as a sequence of one-character strings, so that the    *)
(* regular expressions and str methods of the source are computed, not     *)
(* assumed.  One script run of Streamlit (a widget event, the handler it   *)
(* triggers, and the st.rerun() the handler may call) is one action.       *)
(***************************************************************************)
EXTENDS Integers, Sequences, FiniteSets, TLC

VARIABLES
    GROQ_API_KEY,             \* candidate_dashboard.py:14-18, fixed at import
    page,                     \* st.session_state.page
    logged_in,                \* st.session_state.logged_in
    user_type,                \* st.session_state.user_type
    parsed,                   \* st.session_state.parsed (a dict: function from keys)
    full_text,                \* st.session_state.full_text
    candidate_jd_list,        \* st.session_state.candidate_jd_list
    candidate_match_results,  \* st.session_state.candidate_match_results
    excel_data,               \* st.session_state.excel_data
    candidate_uploaded_resumes, \* st.session_state.candidate_uploaded_resumes
    iq_output,                \* st.session_state.iq_output, a text (<<>> is '')
    interview_qa,             \* st.session_state.interview_qa
    evaluation_report,        \* st.session_state.evaluation_report
    session_keys,             \* which of the three interview keys st.session_state holds
    rendered,                 \* what the last script run put on the screen
    last,                     \* the handler the last script run executed
    llm_reply,                \* the text an LLM call answered with (pure-function specs)
    result                    \* the value the function under check returned

vars == <<GROQ_API_KEY, page, logged_in, user_type, parsed, full_text,
          excel_data, candidate_uploaded_resumes, iq_output, interview_qa,
          evaluation_report, session_keys, candidate_jd_list,
          candidate_match_results, rendered, last, llm_reply, result>>

(***************************************************************************)
(* Bounds of the model.                                                    *)
(***************************************************************************)
MaxReplyLen == 5     \* free characters of a fit-analysis reply
MaxJDs == 2          \* job descriptions in candidate_jd_list
MaxJsonLen == 4      \* tokens of an LLM reply that should hold JSON

None == "None"
DUMMY_KEY == "DUMMY_KEY_FOR_LOCAL_TESTING"
REAL_KEY == "gsk_real"

(***************************************************************************)
(* Text helpers.                                                           *)
(***************************************************************************)
Digits == {"0", "1", "2", "3", "4", "5", "6", "7", "8", "9"}
Whitespace == {" ", "\n"}

IsDigit(c) == c \in Digits
IsSpace(c) == c \in Whitespace
NotDigit(c) == c \notin Digits

\* In a fit-analysis reply the symbol "K" stands for the eighteen characters
\* "Overall Fit Score:" in any letter case (the pattern is compiled with
\* re.IGNORECASE).  The keyword holds no digit and no whitespace at its ends
\* and cannot overlap itself, so for this pattern it behaves as one character
\* that is neither digit nor whitespace.
KEYWORD == "K"

DigitVal(c) ==
    CASE c = "0" -> 0 [] c = "1" -> 1 [] c = "2" -> 2 [] c = "3" -> 3
      [] c = "4" -> 4 [] c = "5" -> 5 [] c = "6" -> 6 [] c = "7" -> 7
      [] c = "8" -> 8 [] c = "9" -> 9

\* str.isdigit(): non-empty and every character a digit
isdigit(s) == Len(s) > 0 /\ \A k \in 1..Len(s) : IsDigit(s[k])

\* int(s) of a digit string (Python integers do not overflow)
RECURSIVE int(_)
int(s) ==
    IF Len(s) = 0 THEN 0
    ELSE int(SubSeq(s, 1, Len(s) - 1)) * 10 + DigitVal(s[Len(s)])

\* s[a..b-1] consists of characters satisfying P
Run(s, a, b, P(_)) == \A k \in a..(b - 1) : P(s[k])

\* All strings over alphabet A of length at most n
RECURSIVE StringsUpTo(_, _)
StringsUpTo(A, n) ==
    IF n = 0 THEN {<<>>}
    ELSE LET shorter == StringsUpTo(A, n - 1)
         IN  shorter \cup {Append(s, c) : s \in {t \in shorter : Len(t) = n - 1}, c \in A}

(***************************************************************************)
(* The score extractor of the batch match, candidate_dashboard.py:1002,    *)
(* 1022 and 1027:                                                          *)
(*   re.search(r'Overall Fit Score:\s*[^\d]*(\d+)\s*/10', fit_output, I)   *)
(***************************************************************************)
NA == <<"N", "/", "A">>
ErrorStr == <<"E", "r", "r", "o", "r">>
NoMatch == <<>>

\* The ends b of a run s[a..b-1] of characters satisfying P, b from lo up
Ends(s, a, lo, P(_)) == {b \in lo..(Len(s) + 1) : Run(s, a, b, P)}

\* MatchesAt with the \s* before "/10" forgotten
MatchesAt_no_space(s, i) ==
    IF s[i] # KEYWORD THEN {}
    ELSE UNION {UNION {{<<a, b, c, c>> :
                           c \in {e \in Ends(s, b, b + 1, IsDigit) :
                                     /\ e + 2 <= Len(s)
                                     /\ s[e] = "/" /\ s[e + 1] = "1" /\ s[e + 2] = "0"}} :
                       b \in Ends(s, a, a, NotDigit)} :
                a \in Ends(s, i + 1, i + 1, IsSpace)}

\* The ways the pattern matches with the keyword at position i: <<a, b, c, d>>
\* where \s* takes s[i+1..a-1], [^\d]* takes s[a..b-1], (\d+) takes s[b..c-1],
\* \s* takes s[c..d-1] and "/10" is s[d..d+2].
MatchesAt(s, i) ==
    IF s[i] # KEYWORD THEN {}
    ELSE UNION {UNION {UNION {{<<a, b, c, d>> :
                                  d \in {e \in Ends(s, c, c, IsSpace) :
                                            /\ e + 2 <= Len(s)
                                            /\ s[e] = "/" /\ s[e + 1] = "1" /\ s[e + 2] = "0"}} :
                              c \in Ends(s, b, b + 1, IsDigit)} :
                       b \in Ends(s, a, a, NotDigit)} :
                a \in Ends(s, i + 1, i + 1, IsSpace)}

\* m comes before n in the order a backtracking matcher with greedy
\* quantifiers tries them: a longer first quantifier first, then the second...
Greedier(m, n) ==
    \/ m[1] > n[1]
    \/ m[1] = n[1] /\ m[2] > n[2]
    \/ m[1] = n[1] /\ m[2] = n[2] /\ m[3] > n[3]
    \/ m[1] = n[1] /\ m[2] = n[2] /\ m[3] = n[3] /\ m[4] >= n[4]

\* re.search: the leftmost start that matches, and there the first match in
\* backtracking order; the value is group(1), or NoMatch for None.
overall_score_match(fit_output) ==
    LET starts == {i \in 1..Len(fit_output) : MatchesAt(fit_output, i) # {}}
    IN  IF starts = {} THEN NoMatch
        ELSE LET i == CHOOSE j \in starts : \A k \in starts : j <= k
                 ms == MatchesAt(fit_output, i)
                 m == CHOOSE x \in ms : \A y \in ms : Greedier(x, y)
             IN  SubSeq(fit_output, m[2], m[3] - 1)

\* line 1022
overall_score_of(fit_output) ==
    LET match == overall_score_match(fit_output)
    IN  IF match # NoMatch THEN match ELSE NA

\* line 1027
numeric_score_of(overall_score) ==
    IF isdigit(overall_score) THEN int(overall_score) ELSE -1

(***************************************************************************)
(* JSON.  An LLM reply that should hold JSON is a sequence of tokens       *)
(* [tok, v]: "{" "}" "[" "]" ",", a key with its colon ("key", v the key), *)
(* a string, number or null literal, whitespace ("ws") and prose that is   *)
(* no JSON ("text").  A Python value is [t, v]: t in "str", "num", "null", *)
(* "list" (v a sequence of values) or "dict" (v a sequence of [k, v]       *)
(* pairs in insertion order, keys unique).  st.session_state.parsed and    *)
(* the other dicts of the program are held as such sequences of pairs.     *)
(***************************************************************************)
Tok(kind, text) == [tok |-> kind, v |-> text]
LBRACE == Tok("{", "")
RBRACE == Tok("}", "")
LBRACKET == Tok("[", "")
RBRACKET == Tok("]", "")
COMMA == Tok(",", "")
WS == Tok("ws", "")
TEXT == Tok("text", "")
Key(k) == Tok("key", k)
StrLit(x) == Tok("str", x)
NumLit(x) == Tok("num", x)
NullLit == Tok("null", "")

Str(x) == [t |-> "str", v |-> x]
Num(x) == [t |-> "num", v |-> x]
Null == [t |-> "null", v |-> ""]
List(xs) == [t |-> "list", v |-> xs]
Dict(pairs) == [t |-> "dict", v |-> pairs]
Pair(key, val) == [k |-> key, v |-> val]

\* key in d
DictHas(d, key) == \E n \in 1..Len(d) : d[n].k = key

\* d.get(key, default)
DictGet(d, key, default) ==
    IF DictHas(d, key)
    THEN d[CHOOSE n \in 1..Len(d) : d[n].k = key].v
    ELSE default

\* d[key] = val: an existing key keeps its place, a new key goes last
DictSet(d, key, val) ==
    IF DictHas(d, key)
    THEN [n \in 1..Len(d) |-> IF d[n].k = key THEN Pair(key, val) ELSE d[n]]
    ELSE Append(d, Pair(key, val))

DictKeys(d) == {d[n].k : n \in 1..Len(d)}

\* bool(x) of a Python value
Truthy(x) ==
    CASE x.t = "str" -> x.v # ""
      [] x.t = "num" -> x.v # "0"
      [] x.t = "null" -> FALSE
      [] OTHER -> Len(x.v) > 0

\* The JSON decoder, json.loads, by recursive descent over the tokens
\* (whitespace between tokens is skipped; a repeated key keeps the last value).
ParseFail == [ok |-> FALSE, val |-> Null, next |-> 0]
ParseOk(x, n) == [ok |-> TRUE, val |-> x, next |-> n]

RECURSIVE ParseValue(_, _), ParseMembers(_, _, _), ParseElements(_, _, _)
ParseValue(t, i) ==
    IF i > Len(t) THEN ParseFail
    ELSE CASE t[i].tok = "str" -> ParseOk(Str(t[i].v), i + 1)
           [] t[i].tok = "num" -> ParseOk(Num(t[i].v), i + 1)
           [] t[i].tok = "null" -> ParseOk(Null, i + 1)
           [] t[i].tok = "{" ->
                IF i + 1 <= Len(t) /\ t[i + 1].tok = "}"
                THEN ParseOk(Dict(<<>>), i + 2)
                ELSE ParseMembers(t, i + 1, <<>>)
           [] t[i].tok = "[" ->
                IF i + 1 <= Len(t) /\ t[i + 1].tok = "]"
                THEN ParseOk(List(<<>>), i + 2)
                ELSE ParseElements(t, i + 1, <<>>)
           [] OTHER -> ParseFail

ParseMembers(t, i, acc) ==
    IF i > Len(t) \/ t[i].tok # "key" THEN ParseFail
    ELSE LET r == ParseValue(t, i + 1)
         IN  IF ~r.ok \/ r.next > Len(t) THEN ParseFail
             ELSE IF t[r.next].tok = "}"
                  THEN ParseOk(Dict(DictSet(acc, t[i].v, r.val)), r.next + 1)
             ELSE IF t[r.next].tok = ","
                  THEN ParseMembers(t, r.next + 1, DictSet(acc, t[i].v, r.val))
             ELSE ParseFail

ParseElements(t, i, acc) ==
    LET r == ParseValue(t, i)
    IN  IF ~r.ok \/ r.next > Len(t) THEN ParseFail
        ELSE IF t[r.next].tok = "]"
             THEN ParseOk(List(Append(acc, r.val)), r.next + 1)
        ELSE IF t[r.next].tok = ","
             THEN ParseElements(t, r.next + 1, Append(acc, r.val))
        ELSE ParseFail

StripWs(t) == SelectSeq(t, LAMBDA x : x.tok # "ws")

\* json.loads(s): [ok, val]; ok = FALSE stands for json.JSONDecodeError
json_loads(s) ==
    LET t == StripWs(s)
        r == ParseValue(t, 1)
    IN  IF r.ok /\ r.next = Len(t) + 1
        THEN [ok |-> TRUE, val |-> r.val]
        ELSE [ok |-> FALSE, val |-> Null]

\* re.search(r'\{.*\}', raw_json_str, re.DOTALL).group(0): from the first "{"
\* to the last "}" after it; <<>> stands for None.
brace_match(raw_json_str) ==
    LET opens == {i \in 1..Len(raw_json_str) : raw_json_str[i].tok = "{"}
    IN  IF opens = {} THEN <<>>
        ELSE LET i == CHOOSE j \in opens : \A k \in opens : j <= k
                 closes == {j \in (i + 1)..Len(raw_json_str) : raw_json_str[j].tok = "}"}
             IN  IF closes = {} THEN <<>>
                 ELSE SubSeq(raw_json_str, i,
                             CHOOSE j \in closes : \A k \in closes : k <= j)

\* lines 185-189 and 258-262: the regex, then json.loads of the match or of
\* the whole reply
load_reply(raw_json_str) ==
    LET match == brace_match(raw_json_str)
    IN  IF match # <<>> THEN json_loads(match) ELSE json_loads(raw_json_str)

\* dumps_scalar writing None as Python prints it
dumps_scalar_repr(x) ==
    CASE x.t = "str" -> <<StrLit(x.v)>>
      [] x.t = "num" -> <<NumLit(x.v)>>
      [] x.t = "null" -> <<TEXT>>

\* json.dumps(obj, indent=4), line 510: a literal for a scalar ...
dumps_scalar(x) ==
    CASE x.t = "str" -> <<StrLit(x.v)>>
      [] x.t = "num" -> <<NumLit(x.v)>>
      [] x.t = "null" -> <<NullLit>>

\* ... and for a list or dict its items, one per indented line, between the
\* brackets ("[]" and "{}" when empty)
RECURSIVE json_dumps(_), dumps_elements(_), dumps_members(_)
json_dumps(x) ==
    CASE x.t = "list" ->
            IF x.v = <<>> THEN <<LBRACKET, RBRACKET>>
            ELSE <<LBRACKET, WS>> \o dumps_elements(x.v) \o <<WS, RBRACKET>>
      [] x.t = "dict" ->
            IF x.v = <<>> THEN <<LBRACE, RBRACE>>
            ELSE <<LBRACE, WS>> \o dumps_members(x.v) \o <<WS, RBRACE>>
      [] OTHER -> dumps_scalar(x)

dumps_elements(xs) ==
    IF Len(xs) = 1 THEN json_dumps(xs[1])
    ELSE json_dumps(xs[1]) \o <<COMMA, WS>> \o dumps_elements(Tail(xs))

dumps_members(ps) ==
    IF Len(ps) = 1 THEN <<Key(ps[1].k)>> \o json_dumps(ps[1].v)
    ELSE <<Key(ps[1].k)>> \o json_dumps(ps[1].v) \o <<COMMA, WS>> \o dumps_members(Tail(ps))

(***************************************************************************)
(* Texts other than LLM replies are not read character by character: a     *)
(* text is [kind, of], where kind tells what the code tests of it ("empty" *)
(* for '', "error" for a text starting with "[Error]") and `of` names the  *)
(* source it was taken from.                                               *)
(***************************************************************************)
Text(kind, of) == [kind |-> kind, of |-> of]
EmptyText == Text("empty", "")
startswith_Error(text) == text.kind = "error"

\* An uploaded file: its name, its extension (os.path.splitext, lowered, dot
\* removed) and whether its bytes decode as UTF-8 text.
UploadedFile(name, ext, utf8) == [name |-> name, ext |-> ext, utf8 |-> utf8]
get_file_type(file) == file.ext

\* extract_content(file_type, temp_path) for a path that exists, lines 83-100:
\* [raised, text]; open(..., encoding='utf-8').read() raises UnicodeDecodeError
\* on bytes that are no UTF-8.
extract_content(file_type, file) ==
    IF file_type \in {"pdf", "docx", "txt", "md", "markdown", "rtf"}
    THEN IF file.utf8
         THEN [raised |-> FALSE, text |-> Text("extracted", file.name)]
         ELSE [raised |-> TRUE, text |-> EmptyText]
    ELSE [raised |-> FALSE, text |-> Text("error", file.name)]

\* extract_content(file_type, uploaded_file) as the mock branch calls it, with
\* the UploadedFile object itself (line 95)
extract_content_object(file_type, file) ==
    IF file_type \in {"pdf", "docx", "txt", "md", "markdown", "rtf"}
    THEN Text("extracted", file.name)
    ELSE Text("error", file.name)

\* The outcome of one chat completion: the constructor Groq() raised
\* ("client"), completions.create or .content.strip() raised ("call"), or the
\* reply `content` came back ("none").
LLM(failure, content) == [failure |-> failure, content |-> content]

\* str(v), as the DataFrame rows of excel_data hold it: kept as the value it
\* renders.
str(v) == [str_of |-> v]

\* pd.DataFrame([{"Section": k, "Content": str(v)} for k, v in d.items()]);
\* excel_data is a DataFrame or None
DataFrame(d) ==
    [is_none |-> FALSE,
     rows |-> [n \in 1..Len(d) |-> [Section |-> d[n].k, Content |-> str(d[n].v)]]]
NoDataFrame == [is_none |-> TRUE, rows |-> <<>>]

mock_parsed_data(name) ==
    <<Pair("name", Str(name)),
      Pair("contact", Dict(<<Pair("email", Str("mock@example.com")),
                             Pair("phone", Str("123-456-7890"))>>)),
      Pair("summary", Str("Mock Candidate")),
      Pair("experience", List(<<Dict(<<Pair("title", Str("AI Developer")),
                                       Pair("company", Str("MockTech")),
                                       Pair("duration", Str("5 Years"))>>)>>)),
      Pair("skills", List(<<Str("Python"), Str("Streamlit"), Str("Groq"), Str("LLMs")>>)),
      Pair("education", List(<<Dict(<<Pair("degree", Str("M.Sc. AI")),
                                      Pair("institution", Str("Mock University"))>>)>>)),
      Pair("projects", List(<<Str("Project Alpha"), Str("Project Beta")>>)),
      Pair("achievements", List(<<Str("Mock Award")>>))>>

PASTED_NAME == "Pasted CV Text"
PARSE_FAILED == "AI Parsing Failed"

ParseError(text, name) ==
    [error |-> PARSE_FAILED, full_text |-> text, name |-> name]

\* parse_and_store_resume(file_input, file_name_key, source_type), lines
\* 103-208.  file_input is an uploaded file or, for source_type "text", the
\* pasted text; llm is the outcome of the chat completion.
parse_and_store_resume(key, file_input, source_type, llm) ==
    IF key = DUMMY_KEY
    THEN LET name == IF source_type = "file" THEN file_input.name ELSE PASTED_NAME
             text == IF source_type = "file"
                     THEN extract_content_object(get_file_type(file_input), file_input)
                     ELSE file_input
         IN  [parsed |-> mock_parsed_data(name), full_text |-> text,
              excel_data |-> DataFrame(mock_parsed_data(name)), name |-> name]
    ELSE IF llm.failure = "client" THEN ParseError(EmptyText, "Unknown File")
    ELSE LET file_name == IF source_type = "file" THEN file_input.name ELSE PASTED_NAME
             extracted == IF source_type = "file"
                          THEN extract_content(get_file_type(file_input), file_input)
                          ELSE [raised |-> FALSE, text |-> file_input]
             text == extracted.text
         IN  IF extracted.raised THEN ParseError(EmptyText, file_name)
             ELSE IF startswith_Error(text) THEN ParseError(text, file_name)
             ELSE IF llm.failure = "call" THEN ParseError(text, file_name)
             ELSE LET loaded == load_reply(llm.content)
                  IN  IF ~loaded.ok THEN ParseError(text, file_name)
                      \* parsed_data.items() of a value that is no dict
                      ELSE IF loaded.val.t # "dict" THEN ParseError(text, file_name)
                      ELSE [parsed |-> loaded.val.v, full_text |-> text,
                            excel_data |-> DataFrame(loaded.val.v), name |-> file_name]

MockMetadata ==
    Dict(<<Pair("role", Str("Mock Developer")), Pair("job_type", Str("Full-Time")),
           Pair("key_skills", List(<<Str("Mock"), Str("Data")>>))>>)

FallbackMetadata ==
    Dict(<<Pair("role", Str("N/A (Error)")), Pair("job_type", Str("N/A")),
           Pair("key_skills", List(<<Str("Error"), Str("str(e)")>>))>>)

\* extract_jd_metadata(jd_text), lines 233-265: the value returned
extract_jd_metadata(key, llm) ==
    IF key = DUMMY_KEY THEN MockMetadata
    ELSE IF llm.failure # "none" THEN FallbackMetadata
    ELSE LET loaded == load_reply(llm.content)
         IN  IF loaded.ok THEN loaded.val ELSE FallbackMetadata

(***************************************************************************)
(* Ranking of the batch match, candidate_dashboard.py:1044-1061.           *)
(***************************************************************************)
\* results_with_score.sort(key=lambda x: x['numeric_score'], reverse=True):
\* the sort is stable, so x goes after every item whose score is not lower.
RECURSIVE InsertByScore(_, _)
InsertByScore(x, sorted) ==
    IF sorted = <<>> THEN <<x>>
    ELSE IF sorted[1].numeric_score >= x.numeric_score
         THEN <<sorted[1]>> \o InsertByScore(x, Tail(sorted))
         ELSE <<x>> \o sorted

RECURSIVE sort_by_numeric_score(_)
sort_by_numeric_score(items) ==
    IF items = <<>> THEN <<>>
    ELSE InsertByScore(items[Len(items)],
                       sort_by_numeric_score(SubSeq(items, 1, Len(items) - 1)))

\* The loop of lines 1049-1059 from index i (1-based, so the code's i + 1 is
\* i here) with the loop's two variables; each item gets 'rank' and loses
\* 'numeric_score'.
RECURSIVE assign_rank(_, _, _, _)
assign_rank(items, i, current_rank, current_score) ==
    IF i > Len(items) THEN <<>>
    ELSE LET higher == items[i].numeric_score > current_score
             rank == IF higher THEN i ELSE current_rank
             score == IF higher THEN items[i].numeric_score ELSE current_score
         IN  <<[jd_name |-> items[i].jd_name,
                overall_score |-> items[i].overall_score,
                full_analysis |-> items[i].full_analysis,
                rank |-> rank]>>
             \o assign_rank(items, i + 1, rank, score)

\* One pass of the loop body of lines 993-1042 for one job description;
\* outcome is [raised, fit_output]: what evaluate_jd_fit returned, or that an
\* exception left the try block.  The section percentages (lines 1003-1020),
\* which nothing else reads, are left out.
match_one(jd_name, outcome) ==
    IF outcome.raised
    THEN [jd_name |-> jd_name, overall_score |-> ErrorStr, numeric_score |-> -1,
          full_analysis |-> <<>>]
    ELSE LET overall_score == overall_score_of(outcome.fit_output)
         IN  [jd_name |-> jd_name, overall_score |-> overall_score,
              numeric_score |-> numeric_score_of(overall_score),
              full_analysis |-> outcome.fit_output]

(***************************************************************************)
(* The session: main_app.py and the handlers of the dashboards.            *)
(***************************************************************************)
UpperLetters == <<"A", "B", "C", "D", "E", "F", "G", "H", "I", "J", "K", "L", "M",
                  "N", "O", "P", "Q", "R", "S", "T", "U", "V", "W", "X", "Y", "Z">>
LowerLetters == <<"a", "b", "c", "d", "e", "f", "g", "h", "i", "j", "k", "l", "m",
                  "n", "o", "p", "q", "r", "s", "t", "u", "v", "w", "x", "y", "z">>

\* lower that leaves capitals as they are
lower_unchanged(s) == s

\* str.lower()
lower(s) ==
    [n \in 1..Len(s) |->
        IF \E u \in 1..26 : UpperLetters[u] = s[n]
        THEN LowerLetters[CHOOSE u \in 1..26 : UpperLetters[u] = s[n]]
        ELSE s[n]]

CANDIDATE == <<"c", "a", "n", "d", "i", "d", "a", "t", "e">>
ADMIN == <<"a", "d", "m", "i", "n">>
HIRING == <<"h", "i", "r", "i", "n", "g">>

\* What is typed into the login form
Usernames == {<<"c", "a", "n", "d", "i", "d", "a", "t", "e">>,
              <<"C", "a", "n", "d", "i", "d", "a", "t", "e">>,
              <<"A", "D", "M", "I", "N">>,
              <<"h", "i", "r", "i", "n", "G">>,
              <<"a", "d", "m", "i", "n", " ">>,
              <<"g", "u", "e", "s", "t">>}
Passwords == {"", "secret"}

AllInterviewKeys == {"iq_output", "interview_qa", "evaluation_report"}

authVars == <<page, logged_in, user_type>>
resumeVars == <<parsed, full_text, excel_data, candidate_uploaded_resumes>>
interviewVars == <<iq_output, interview_qa, evaluation_report>>
jdVars == <<candidate_jd_list, candidate_match_results>>
fnVars == <<llm_reply, result>>

Op(name, arg) == [op |-> name, arg |-> arg]

\* initialize_session_state() of main_app.py, lines 14-44, on the first run,
\* which then renders the login page (line 102).  The three interview keys
\* are not among them.
initialize_session_state ==
    /\ page = "login"
    /\ logged_in = FALSE
    /\ user_type = None
    /\ parsed = <<>>
    /\ full_text = EmptyText
    /\ excel_data = NoDataFrame
    /\ candidate_uploaded_resumes = <<>>
    /\ candidate_jd_list = <<>>
    /\ candidate_match_results = <<>>
    /\ iq_output = <<>>
    /\ interview_qa = <<>>
    /\ evaluation_report = ""
    /\ session_keys = {}

\* The dashboard the main block of main_app.py calls, lines 90-102.  As the
\* source stands the run cannot get that far: line 4 imports an
\* admin_dashboard the repository does not hold, hiring_dashboard.py does not
\* compile, and line 95 passes go_to to candidate_dashboard(), which takes no
\* parameter.  The model follows the statements of the handlers as if the
\* imports and the calls went through.
main_dispatch(li, ut) ==
    IF li
    THEN CASE ut = "admin" -> "admin_dashboard"
           [] ut = "candidate" -> "candidate_dashboard"
           [] ut = "hiring" -> "hiring_dashboard"
           [] OTHER -> "login"
    ELSE "login"

\* line 692
is_resume_parsed(p, text) ==
    Truthy(DictGet(p, "name", Null)) \/ text.kind # "empty"

\* Lines 1192-1199: a run of the candidate dashboard that reaches the
\* Interview Prep tab with a parsed resume and a real key creates the three
\* interview keys that are missing (with "", [] and "").
interview_keys_after(keys, was_parsed, p) ==
    IF was_parsed /\ ~DictHas(p, "error") /\ GROQ_API_KEY = REAL_KEY
    THEN AllInterviewKeys
    ELSE keys

\* The keys after a whole run of the main script that dispatches on li, ut
keys_after_run(li, ut, p, text) ==
    IF main_dispatch(li, ut) = "candidate_dashboard"
    THEN interview_keys_after(session_keys, is_resume_parsed(p, text), p)
    ELSE session_keys

\* login_page(), lines 46-79, with the form submitted; st.rerun() runs the
\* main script again with the new state.
LoginSubmit(username, password) ==
    /\ rendered = "login"
    /\ LET user == lower(username)
       IN  IF user = CANDIDATE
           THEN /\ logged_in' = TRUE
                /\ user_type' = "candidate"
                /\ page' = "candidate_dashboard"
           ELSE IF user = ADMIN
           THEN /\ logged_in' = TRUE
                /\ user_type' = "admin"
                /\ page' = "admin_dashboard"
           ELSE IF user = HIRING
           THEN /\ logged_in' = TRUE
                /\ user_type' = "hiring"
                /\ page' = "hiring_dashboard"
           ELSE UNCHANGED authVars
    /\ rendered' = main_dispatch(logged_in', user_type')
    /\ session_keys' = keys_after_run(logged_in', user_type', parsed, full_text)
    /\ last' = Op("login_submit", username)
    /\ UNCHANGED <<GROQ_API_KEY, resumeVars, interviewVars, jdVars, fnVars>>

\* A run of the main script with no widget event (a browser refresh)
Rerun ==
    /\ rendered' = main_dispatch(logged_in, user_type)
    /\ session_keys' = keys_after_run(logged_in, user_type, parsed, full_text)
    /\ last' = Op("rerun", <<>>)
    /\ UNCHANGED <<GROQ_API_KEY, authVars, resumeVars, interviewVars, jdVars, fnVars>>

\* hiring_dashboard.py, lines 12-21, the statements of the Log Out button in
\* order.  The function's parameter is go_to_func and the module defines no
\* go_to, so line 18 raises NameError after lines 14-15 ran: page keeps its
\* value, st.rerun() is not reached and the run ends with the exception on
\* screen.  (As the file stands, line 11 is indented deeper than its block
\* and names an undefined nav_col, so the module does not even compile.)
HiringLogout ==
    /\ rendered = "hiring_dashboard"
    /\ logged_in' = FALSE
    /\ user_type' = None
    /\ page' = page
    /\ rendered' = "exception"
    /\ last' = Op("hiring_logout", <<>>)
    /\ UNCHANGED <<GROQ_API_KEY, resumeVars, interviewVars, session_keys, jdVars, fnVars>>

\* candidate_dashboard.py, lines 660-662: the Log Out button sets page and
\* reruns; the main script then dispatches on logged_in and user_type.
CandidateLogout ==
    /\ rendered = "candidate_dashboard"
    /\ page' = "login"
    /\ UNCHANGED <<logged_in, user_type>>
    /\ rendered' = main_dispatch(logged_in', user_type')
    /\ session_keys' = keys_after_run(logged_in', user_type', parsed, full_text)
    /\ last' = Op("candidate_logout", <<>>)
    /\ UNCHANGED <<GROQ_API_KEY, resumeVars, interviewVars, jdVars, fnVars>>

(***************************************************************************)
(* Candidate dashboard: resume upload and parsing, lines 699-807.          *)
(***************************************************************************)
\* clear_interview_state(), lines 71-75
clear_interview_state ==
    /\ iq_output' = <<>>
    /\ interview_qa' = <<>>
    /\ evaluation_report' = ""
    /\ session_keys' = AllInterviewKeys

\* store_parse_result with clear_interview_state() called after a failed
\* parse as well
store_parse_result_clearing(res) ==
    /\ IF "error" \notin DOMAIN res
       THEN /\ parsed' = DictSet(res.parsed, "name", Str(res.name))
            /\ full_text' = res.full_text
            /\ excel_data' = res.excel_data
       ELSE /\ parsed' = <<Pair("error", Str(res.error)), Pair("name", Str(res.name))>>
            /\ full_text' = res.full_text
            /\ UNCHANGED excel_data
    /\ clear_interview_state

\* store_parse_result without the call of clear_interview_state()
store_parse_result_keeping(res) ==
    /\ IF "error" \notin DOMAIN res
       THEN /\ parsed' = DictSet(res.parsed, "name", Str(res.name))
            /\ full_text' = res.full_text
            /\ excel_data' = res.excel_data
       ELSE /\ parsed' = <<Pair("error", Str(res.error)), Pair("name", Str(res.name))>>
            /\ full_text' = res.full_text
            /\ UNCHANGED excel_data
    /\ UNCHANGED interviewVars
    /\ session_keys' =
           interview_keys_after(session_keys, is_resume_parsed(parsed, full_text), parsed')

\* Lines 756-767 and 794-805: what the Parse buttons do with the result
store_parse_result(res) ==
    IF "error" \notin DOMAIN res
    THEN /\ parsed' = DictSet(res.parsed, "name", Str(res.name))
         /\ full_text' = res.full_text
         /\ excel_data' = res.excel_data
         /\ clear_interview_state
    ELSE /\ parsed' = <<Pair("error", Str(res.error)), Pair("name", Str(res.name))>>
         /\ full_text' = res.full_text
         /\ UNCHANGED <<excel_data, interviewVars>>
         /\ session_keys' =
                interview_keys_after(session_keys, is_resume_parsed(parsed, full_text), parsed')

\* Lines 734-739: a file appears in the uploader
UploadFile(file) ==
    /\ rendered = "candidate_dashboard"
    /\ candidate_uploaded_resumes' =
           IF candidate_uploaded_resumes = <<>> \/ candidate_uploaded_resumes[1].name # file.name
           THEN <<file>>
           ELSE candidate_uploaded_resumes
    /\ session_keys' = interview_keys_after(session_keys, is_resume_parsed(parsed, full_text), parsed)
    /\ last' = Op("upload_file", <<>>)
    /\ UNCHANGED <<GROQ_API_KEY, authVars, parsed, full_text, excel_data, interviewVars,
                   jdVars, rendered, fnVars>>

\* Lines 740-745: the uploader is empty while a file is still stored
RemoveFile ==
    /\ rendered = "candidate_dashboard"
    /\ candidate_uploaded_resumes # <<>>
    /\ candidate_uploaded_resumes' = <<>>
    /\ parsed' = <<>>
    /\ full_text' = EmptyText
    /\ session_keys' = interview_keys_after(session_keys, is_resume_parsed(parsed, full_text), parsed')
    /\ last' = Op("remove_file", <<>>)
    /\ UNCHANGED <<GROQ_API_KEY, authVars, excel_data, interviewVars, jdVars, rendered, fnVars>>

\* Lines 751-767: "Parse and Load" of the stored file; last.arg keeps the
\* interview state the button was pressed in
ParseUploadedFile(llm) ==
    /\ rendered = "candidate_dashboard"
    /\ candidate_uploaded_resumes # <<>>
    /\ store_parse_result(
           parse_and_store_resume(GROQ_API_KEY, candidate_uploaded_resumes[1], "file", llm))
    /\ last' = Op("parse_file", interviewVars)
    /\ UNCHANGED <<GROQ_API_KEY, authVars, candidate_uploaded_resumes, jdVars, rendered, fnVars>>

\* Lines 786-805: "Parse and Load Pasted Text" (the text is not blank)
ParsePastedText(pasted_text, llm) ==
    /\ rendered = "candidate_dashboard"
    /\ candidate_uploaded_resumes' = <<>>
    /\ store_parse_result(parse_and_store_resume(GROQ_API_KEY, pasted_text, "text", llm))
    /\ last' = Op("parse_text", interviewVars)
    /\ UNCHANGED <<GROQ_API_KEY, authVars, jdVars, rendered, fnVars>>

(***************************************************************************)
(* Candidate dashboard: job descriptions, lines 856-872 and 926-932.       *)
(***************************************************************************)
\* text.splitlines()[0].strip() of the sample texts; their first lines are
\* under 31 characters, so the truncation of line 867 does not apply, and a
\* stripped text that is not empty has a first line that is not empty.
name_base_of(text) ==
    CASE text = "Data Engineer\nSpark, SQL" -> "Data Engineer"
      [] text = "ML Engineer\nPython" -> "ML Engineer"

\* {**a, **b}: the keys of a in place, then the new keys of b
RECURSIVE DictUpdate(_, _)
DictUpdate(a, b) ==
    IF b = <<>> THEN a
    ELSE DictUpdate(DictSet(a, b[1].k, b[1].v), Tail(b))

\* {"name": name, "content": jd_text, **metadata}, lines 845, 871 and 906
jd_entry(name, jd_text, metadata) ==
    DictUpdate(<<Pair("name", Str(name)), Pair("content", Str(jd_text))>>, metadata)

\* What a loop over the inputs of one "Add JD(s)" button leaves: the list,
\* whether **metadata met a value that is no mapping (TypeError), and the
\* name and jd_text the loop computed for each entry it appended.
Added(jd_list, raised, computed) ==
    [list |-> jd_list, raised |-> raised, computed |-> computed]

Computed(name, jd_text) == [name |-> name, content |-> jd_text]

\* The loop of lines 864-871 from text i
RECURSIVE add_jds_from_text(_, _, _, _, _)
add_jds_from_text(jd_list, texts, llms, i, computed) ==
    IF i > Len(texts) THEN Added(jd_list, FALSE, computed)
    ELSE LET name_base == name_base_of(texts[i])
             metadata == extract_jd_metadata(GROQ_API_KEY, llms[i])
         IN  IF metadata.t # "dict" THEN Added(jd_list, TRUE, computed)
             ELSE add_jds_from_text(
                      Append(jd_list, jd_entry(name_base, texts[i], metadata.v)),
                      texts, llms, i + 1,
                      Append(computed, Computed(name_base, texts[i])))

\* "Add JD(s) from Text", lines 861-872, for the texts the text area splits
\* into.  When the loop raises, the run ends there: the tabs after JD
\* Management are not reached.
AddJDFromText(texts, llms) ==
    /\ rendered = "candidate_dashboard"
    /\ Len(candidate_jd_list) + Len(texts) <= MaxJDs
    /\ LET added == add_jds_from_text(candidate_jd_list, texts, llms, 1, <<>>)
       IN  /\ candidate_jd_list' = added.list
           /\ session_keys' =
                  IF added.raised THEN session_keys
                  ELSE interview_keys_after(session_keys,
                                            is_resume_parsed(parsed, full_text), parsed)
    /\ last' = Op("add_jd_text", <<>>)
    /\ UNCHANGED <<GROQ_API_KEY, authVars, resumeVars, interviewVars,
                   candidate_match_results, rendered, fnVars>>

\* A URL the text area holds: the text and, when it contains '/jobs/view/',
\* what follows up to the next '/' (line 840)
Url(text, job_id) == [url |-> text, job_id |-> job_id]

\* extract_jd_from_linkedin_url(url), lines 210-231; never raises
extract_jd_from_linkedin_url(key, url, llm) ==
    IF key = DUMMY_KEY THEN Text("simulated", "--- Simulated JD for: " \o url.url \o " ---")
    ELSE IF llm.failure # "none" THEN Text("error", "[Error] JD Extraction from URL failed")
    ELSE Text("simulated", "--- Simulated JD for: " \o url.url \o " ---")

\* jd_text.startswith("[Error"), line 847
startswith_Error_bracket(text) == text.kind = "error"

\* jd_text.startswith("Error"), line 904: no text of extract_content starts
\* so (its error texts start with "[Error]")
startswith_Error_plain(text) == text.kind = "Error"

\* lines 840-843
url_jd_name(jd_list, url, count) ==
    LET name_base == IF url.job_id # None THEN url.job_id ELSE "URL " \o ToString(count + 1)
        name == "JD from URL: " \o name_base
    IN  IF \E n \in 1..Len(jd_list) : DictGet(jd_list[n], "name", Null) = Str(name)
        THEN "JD from URL: " \o name_base \o " (" \o ToString(Len(jd_list) + 1) \o ")"
        ELSE name

\* The loop of lines 833-848 from url i (none of them empty)
RECURSIVE add_jds_from_url(_, _, _, _, _, _, _)
add_jds_from_url(jd_list, urls, url_llms, llms, i, count, computed) ==
    IF i > Len(urls) THEN Added(jd_list, FALSE, computed)
    ELSE LET jd_text == extract_jd_from_linkedin_url(GROQ_API_KEY, urls[i], url_llms[i])
             metadata == extract_jd_metadata(GROQ_API_KEY, llms[i])
             name == url_jd_name(jd_list, urls[i], count)
         IN  IF metadata.t # "dict" THEN Added(jd_list, TRUE, computed)
             ELSE add_jds_from_url(
                      Append(jd_list, jd_entry(name, jd_text.of, metadata.v)),
                      urls, url_llms, llms, i + 1,
                      IF startswith_Error_bracket(jd_text) THEN count ELSE count + 1,
                      Append(computed, Computed(name, jd_text.of)))

\* "Add JD(s) from URL", lines 827-853
AddJDFromURL(urls, url_llms, llms) ==
    /\ rendered = "candidate_dashboard"
    /\ Len(candidate_jd_list) + Len(urls) <= MaxJDs
    /\ LET added == add_jds_from_url(candidate_jd_list, urls, url_llms, llms, 1, 0, <<>>)
       IN  /\ candidate_jd_list' = added.list
           /\ session_keys' =
                  IF added.raised THEN session_keys
                  ELSE interview_keys_after(session_keys,
                                            is_resume_parsed(parsed, full_text), parsed)
    /\ last' = Op("add_jd_url", <<>>)
    /\ UNCHANGED <<GROQ_API_KEY, authVars, resumeVars, interviewVars,
                   candidate_match_results, rendered, fnVars>>

\* The loop of lines 891-909 from file i; extract_content of a file that is
\* no UTF-8 text raises and ends the loop like the TypeError of **metadata.
RECURSIVE add_jds_from_file(_, _, _, _, _)
add_jds_from_file(jd_list, files, llms, i, computed) ==
    IF i > Len(files) THEN Added(jd_list, FALSE, computed)
    ELSE LET extracted == extract_content(get_file_type(files[i]), files[i])
             jd_text == extracted.text
             metadata == extract_jd_metadata(GROQ_API_KEY, llms[i])
         IN  IF extracted.raised THEN Added(jd_list, TRUE, computed)
             ELSE IF startswith_Error_plain(jd_text)
             THEN add_jds_from_file(jd_list, files, llms, i + 1, computed)
             ELSE IF metadata.t # "dict" THEN Added(jd_list, TRUE, computed)
             ELSE add_jds_from_file(
                      Append(jd_list, jd_entry(files[i].name, jd_text.of, metadata.v)),
                      files, llms, i + 1,
                      Append(computed, Computed(files[i].name, jd_text.of)))

\* "Add JD(s) from File", lines 882-914
AddJDFromFile(files, llms) ==
    /\ rendered = "candidate_dashboard"
    /\ Len(candidate_jd_list) + Len(files) <= MaxJDs
    /\ LET added == add_jds_from_file(candidate_jd_list, files, llms, 1, <<>>)
       IN  /\ candidate_jd_list' = added.list
           /\ session_keys' =
                  IF added.raised THEN session_keys
                  ELSE interview_keys_after(session_keys,
                                            is_resume_parsed(parsed, full_text), parsed)
    /\ last' = Op("add_jd_file", <<>>)
    /\ UNCHANGED <<GROQ_API_KEY, authVars, resumeVars, interviewVars,
                   candidate_match_results, rendered, fnVars>>

\* "Clear All JDs", lines 926-932
ClearAllJDs ==
    /\ rendered = "candidate_dashboard"
    /\ candidate_jd_list # <<>>
    /\ candidate_jd_list' = <<>>
    /\ candidate_match_results' = <<>>
    /\ session_keys' = keys_after_run(logged_in, user_type, parsed, full_text)
    /\ last' = Op("clear_jds", <<>>)
    /\ UNCHANGED <<GROQ_API_KEY, authVars, resumeVars, interviewVars, rendered, fnVars>>

(***************************************************************************)
(* Candidate dashboard: batch match, lines 945-1061.                       *)
(***************************************************************************)
jd_name_of(jd_item) == DictGet(jd_item, "name", Null).v

\* lines 974-977
jds_to_match(selected_jd_names) ==
    SelectSeq(candidate_jd_list, LAMBDA jd_item : jd_name_of(jd_item) \in selected_jd_names)

\* results_with_score with the sort of line 1046 forgotten
results_unsorted(jds, outcomes) ==
    [n \in 1..Len(jds) |-> match_one(jd_name_of(jds[n]), outcomes[n])]

\* lines 988-1046: results_with_score after the loop and the sort
results_with_score(jds, outcomes) ==
    sort_by_numeric_score([n \in 1..Len(jds) |-> match_one(jd_name_of(jds[n]), outcomes[n])])

\* "Run Match Analysis", lines 949-1061: selected_jd_names is what the
\* multiselect holds, outcomes[n] the outcome of evaluate_jd_fit for the n-th
\* job description matched.
RunMatchAnalysis(selected_jd_names, outcomes) ==
    /\ rendered = "candidate_dashboard"
    /\ is_resume_parsed(parsed, full_text)
    /\ candidate_jd_list # <<>>
    /\ GROQ_API_KEY # DUMMY_KEY
    /\ LET jds == jds_to_match(selected_jd_names)
       IN  /\ Len(outcomes) = Len(jds)
           /\ candidate_match_results' =
                  IF jds = <<>> THEN <<>>
                  ELSE assign_rank(results_with_score(jds, outcomes), 1, 1, -1)
    /\ session_keys' = interview_keys_after(session_keys, TRUE, parsed)
    /\ last' = Op("run_match", <<>>)
    /\ UNCHANGED <<GROQ_API_KEY, authVars, resumeVars, interviewVars, candidate_jd_list,
                   rendered, fnVars>>

(***************************************************************************)
(* Candidate dashboard: interview preparation, lines 1190-1283.            *)
(***************************************************************************)
\* s.strip(chars): s without the leading and trailing characters in chars
strip_chars(s, chars) ==
    LET kept == {n \in 1..Len(s) : s[n] \notin chars}
    IN  IF kept = {} THEN <<>>
        ELSE SubSeq(s, CHOOSE n \in kept : \A m \in kept : n <= m,
                       CHOOSE n \in kept : \A m \in kept : n >= m)

\* s.strip()
strip(s) == strip_chars(s, Whitespace)

\* s.splitlines() for the line break "\n"
RECURSIVE splitlines(_)
splitlines(s) ==
    IF s = <<>> THEN <<>>
    ELSE LET breaks == {n \in 1..Len(s) : s[n] = "\n"}
         IN  IF breaks = {} THEN <<s>>
             ELSE LET n == CHOOSE b \in breaks : \A c \in breaks : b <= c
                  IN  <<SubSeq(s, 1, n - 1)>> \o splitlines(SubSeq(s, n + 1, Len(s)))

\* s.find(c) counted from 1: 0 when c is not in s
find(s, c) ==
    IF \E n \in 1..Len(s) : s[n] = c
    THEN CHOOSE n \in 1..Len(s) : s[n] = c /\ \A m \in 1..(n - 1) : s[m] # c
    ELSE 0

startswith(s, c) == Len(s) > 0 /\ s[1] = c
endswith(s, c) == Len(s) > 0 /\ s[Len(s)] = c

QUESTION_FAILED == <<"[", "E", "r", "r", "o", "r", "]", " ", "f", "a", "i", "l", "e", "d">>

\* generate_interview_questions(parsed_json, section_choice) with a real key,
\* lines 358-391; never raises
generate_interview_questions(llm) ==
    IF llm.failure # "none" THEN QUESTION_FAILED ELSE strip(llm.content)

\* The loop of lines 1221-1231 from line i with q_list and current_level
RECURSIVE parse_questions(_, _, _, _)
parse_questions(lines, i, q_list, current_level) ==
    IF i > Len(lines) THEN q_list
    ELSE LET line == strip(lines[i])
         IN  IF startswith(line, "[") /\ endswith(line, "]")
             THEN parse_questions(lines, i + 1, q_list, strip_chars(line, {"[", "]"}))
             ELSE IF startswith(lower(line), "q") /\ find(line, ":") # 0
             THEN LET question_text == strip(SubSeq(line, find(line, ":") + 1, Len(line)))
                  IN  parse_questions(
                          lines, i + 1,
                          Append(q_list,
                                 [question |-> <<"(">> \o current_level \o <<")", " ">>
                                                   \o question_text,
                                  answer |-> "",
                                  level |-> current_level]),
                          current_level)
             ELSE parse_questions(lines, i + 1, q_list, current_level)

\* "Generate Interview Questions", lines 1192-1235; the try block has nothing
\* that raises.
GenerateInterviewQuestions(llm) ==
    /\ rendered = "candidate_dashboard"
    /\ is_resume_parsed(parsed, full_text)
    /\ ~DictHas(parsed, "error")
    /\ GROQ_API_KEY # DUMMY_KEY
    /\ LET raw_questions_response == generate_interview_questions(llm)
       IN  /\ iq_output' = raw_questions_response
           /\ interview_qa' = parse_questions(splitlines(raw_questions_response), 1, <<>>, <<>>)
    /\ evaluation_report' = ""
    /\ session_keys' = AllInterviewKeys
    /\ last' = Op("generate_questions", <<>>)
    /\ UNCHANGED <<GROQ_API_KEY, authVars, resumeVars, jdVars, rendered, fnVars>>

EVALUATION_FAILED == "[Error] Answer Evaluation Failed: e"

\* evaluate_interview_answers(qa_list, parsed_json), lines 393-428; the
\* content of llm is the reply already stripped
evaluate_interview_answers(key, llm) ==
    IF key = DUMMY_KEY THEN "Mock Evaluation Report"
    ELSE IF llm.failure # "none" THEN EVALUATION_FAILED
    ELSE llm.content

\* line 1258 for every question: the answer typed into its text area
with_answers(qa, answers) ==
    [i \in 1..Len(qa) |-> [qa[i] EXCEPT !.answer = answers[i]]]

\* "Submit & Evaluate Answers", lines 1242-1278.  The answers are given
\* stripped, so a blank answer is "".
SubmitAnswers(answers, llm) ==
    /\ rendered = "candidate_dashboard"
    /\ is_resume_parsed(parsed, full_text)
    /\ ~DictHas(parsed, "error")
    /\ GROQ_API_KEY # DUMMY_KEY
    /\ interview_qa # <<>>
    /\ Len(answers) = Len(interview_qa)
    /\ interview_qa' = with_answers(interview_qa, answers)
    /\ evaluation_report' =
           IF \A i \in 1..Len(answers) : answers[i] # ""
           THEN evaluate_interview_answers(GROQ_API_KEY, llm)
           ELSE evaluation_report
    /\ session_keys' = AllInterviewKeys
    /\ last' = Op("submit_answers", <<>>)
    /\ UNCHANGED <<GROQ_API_KEY, authVars, resumeVars, iq_output, jdVars, rendered, fnVars>>

(***************************************************************************)
(* What the user and the LLM supply.                                       *)
(***************************************************************************)
Files == {UploadedFile("cv.txt", "txt", TRUE), UploadedFile("cv.pdf", "pdf", FALSE)}

PastedTexts == {Text("pasted", "cv text")}

GoodResumeReply ==
    <<LBRACE, Key("name"), StrLit("Ann"), COMMA,
      Key("skills"), LBRACKET, StrLit("Python"), RBRACKET, RBRACE>>

ParseLLMs == {LLM("none", GoodResumeReply), LLM("none", <<TEXT>>)}

JDTexts == {"Data Engineer\nSpark, SQL", "ML Engineer\nPython"}

MetaLLMs == {LLM("none", <<LBRACE, Key("role"), StrLit("Engineer"), RBRACE>>),
             LLM("none", <<NumLit("42")>>)}

Returned(text) == [raised |-> FALSE, fit_output |-> text]
Raised == [raised |-> TRUE, fit_output |-> <<>>]

Score9 == <<"K", " ", "9", "/", "1", "0">>
Score7 == <<"K", " ", "7", "/", "1", "0">>
Score5 == <<"K", " ", "5", "/", "1", "0">>
NoScore == <<"K", " ", "n", "/", "a">>

FitSamples == {Returned(Score9), Returned(NoScore)}

SeqsUpTo(S, n) == UNION {[1..k -> S] : k \in 1..n}

(***************************************************************************)
(* The application.                                                        *)
(***************************************************************************)
Init ==
    /\ GROQ_API_KEY \in {DUMMY_KEY, REAL_KEY}
    /\ initialize_session_state
    /\ rendered = "login"
    /\ last = Op("start", <<>>)
    /\ llm_reply = <<>>
    /\ result = <<>>

Next ==
    \/ \E username \in Usernames, password \in Passwords : LoginSubmit(username, password)
    \/ Rerun
    \/ HiringLogout
    \/ CandidateLogout
    \/ \E file \in Files : UploadFile(file)
    \/ RemoveFile
    \/ \E llm \in ParseLLMs : ParseUploadedFile(llm)
    \/ \E pasted_text \in PastedTexts, llm \in ParseLLMs : ParsePastedText(pasted_text, llm)
    \/ \E texts \in SeqsUpTo(JDTexts, 2) :
          \E llms \in [1..Len(texts) -> MetaLLMs] : AddJDFromText(texts, llms)
    \/ ClearAllJDs
    \/ \E selected_jd_names \in SUBSET {jd_name_of(candidate_jd_list[n]) :
                                           n \in 1..Len(candidate_jd_list)} :
          \E outcomes \in [1..Len(jds_to_match(selected_jd_names)) -> FitSamples] :
              RunMatchAnalysis(selected_jd_names, outcomes)

Spec == Init /\ [][Next]_vars

(***************************************************************************)
(* The score extractor on every reply within the bounds: the candidate is  *)
(* logged in with a parsed resume and one job description, and Run Match   *)
(* Analysis meets any reply.                                               *)
(***************************************************************************)
ReplyAlphabet == {KEYWORD, " ", "/", "1", "0"}

\* A reply is free text, then nothing, "/10" or one more score line
ReplyTails == {<<>>, <<"/", "1", "0">>, Score7}

FitReplies == {body \o tail : body \in StringsUpTo(ReplyAlphabet, MaxReplyLen),
                              tail \in ReplyTails}

JD(name) ==
    DictUpdate(<<Pair("name", Str(name)), Pair("content", Str("text of the JD"))>>,
               <<Pair("role", Str("Engineer"))>>)

\* The state after a login as candidate, a parse of pasted text and n job
\* descriptions added, their names "1" .. "n"
CandidateWithJDs(n) ==
    /\ GROQ_API_KEY = REAL_KEY
    /\ page = "candidate_dashboard"
    /\ logged_in = TRUE
    /\ user_type = "candidate"
    /\ parsed = <<Pair("name", Str(PASTED_NAME)), Pair("skills", List(<<Str("Python")>>))>>
    /\ full_text = Text("pasted", "cv text")
    /\ excel_data = DataFrame(<<Pair("name", Str("Ann")), Pair("skills", List(<<Str("Python")>>))>>)
    /\ candidate_uploaded_resumes = <<>>
    /\ candidate_jd_list = [k \in 1..n |-> JD(ToString(k))]
    /\ candidate_match_results = <<>>
    /\ iq_output = <<>>
    /\ interview_qa = <<>>
    /\ evaluation_report = ""
    /\ session_keys = AllInterviewKeys
    /\ rendered = "candidate_dashboard"
    /\ last = Op("start", <<>>)
    /\ result = <<>>

InitScore ==
    /\ CandidateWithJDs(1)
    /\ llm_reply \in FitReplies

\* The analysis call returns the reply, or raises (lines 1033-1042)
NextScore ==
    \/ RunMatchAnalysis({"1"}, <<Returned(llm_reply)>>)
    \/ RunMatchAnalysis({"1"}, <<Raised>>)

SpecScore == InitScore /\ [][NextScore]_vars

(***************************************************************************)
(* The ranking on several job descriptions with sample scores.             *)
(***************************************************************************)
MaxRankJDs == 3

RankSamples == {Returned(Score9), Returned(Score7), Returned(Score5), Returned(NoScore), Raised}

\* llm_reply[k] is what the analysis of the k-th job description will give
InitRank ==
    \E n \in 1..MaxRankJDs :
        /\ CandidateWithJDs(n)
        /\ llm_reply \in [1..n -> RankSamples]

IndexOfJD(jd_item) ==
    CHOOSE k \in 1..Len(candidate_jd_list) : candidate_jd_list[k] = jd_item

NextRank ==
    \E selected_jd_names \in SUBSET {jd_name_of(candidate_jd_list[n]) :
                                        n \in 1..Len(candidate_jd_list)} :
        LET jds == jds_to_match(selected_jd_names)
        IN  RunMatchAnalysis(selected_jd_names,
                             [k \in 1..Len(jds) |-> llm_reply[IndexOfJD(jds[k])]])

SpecRank == InitRank /\ [][NextRank]_vars

(***************************************************************************)
(* The two functions that load JSON from an LLM reply, on every reply      *)
(* within the bounds.                                                      *)
(***************************************************************************)
JsonAlphabet == {LBRACE, RBRACE, COMMA, Key("role"), NumLit("42"), TEXT}

JsonReplies == StringsUpTo(JsonAlphabet, MaxJsonLen)

Failures == {"none", "client", "call"}

SessionIdle ==
    /\ initialize_session_state
    /\ rendered = "login"
    /\ last = Op("start", <<>>)
    /\ result = <<>>

InitJson ==
    /\ GROQ_API_KEY = REAL_KEY
    /\ SessionIdle
    /\ llm_reply \in JsonReplies

sessionVars == <<GROQ_API_KEY, authVars, resumeVars, interviewVars, session_keys, jdVars, rendered>>

CallParseAndStoreResume(file_input, source_type, failure) ==
    /\ result' = parse_and_store_resume(GROQ_API_KEY, file_input, source_type,
                                        LLM(failure, llm_reply))
    /\ last' = Op("parse_and_store_resume", failure)
    /\ UNCHANGED <<sessionVars, llm_reply>>

CallExtractJdMetadata(failure) ==
    /\ result' = extract_jd_metadata(GROQ_API_KEY, LLM(failure, llm_reply))
    /\ last' = Op("extract_jd_metadata", failure)
    /\ UNCHANGED <<sessionVars, llm_reply>>

NextJson ==
    \/ \E failure \in Failures :
          \/ CallParseAndStoreResume(UploadedFile("cv.txt", "txt", TRUE), "file", failure)
          \/ CallParseAndStoreResume(Text("pasted", "cv text"), "text", failure)
    \/ \E failure \in Failures : CallExtractJdMetadata(failure)

SpecJson == InitJson /\ [][NextJson]_vars

(***************************************************************************)
(* The JSON export of CV Management, lines 508-517, on every structured CV *)
(* within the bounds.                                                      *)
(***************************************************************************)
MaxWidth == 2        \* entries of a list or dict of a CV

Scalars == {Str("a"), Num("1"), Null}

\* The sequences without repetition over S of length at most n
DistinctSeqs(S, n) ==
    {q \in StringsUpTo(S, n) : \A a, b \in 1..Len(q) : a # b => q[a] # q[b]}

\* The dicts with keys among Ks (each once, at most MaxWidth of them, in any
\* order) and values in Vs
Dicts(Ks, Vs) ==
    UNION {{[n \in 1..Len(ks) |-> Pair(ks[n], vs[n])] : vs \in [1..Len(ks) -> Vs]} :
              ks \in DistinctSeqs(Ks, MaxWidth)}

SectionValues ==
    Scalars
    \cup {List(xs) : xs \in StringsUpTo(Scalars, MaxWidth)}
    \cup {Dict(d) : d \in Dicts({"email", "phone"}, Scalars)}

\* A parsed CV: what json.loads made of a reply, with 'name' set to the name
\* of its source (lines 757-760)
StructuredCVs ==
    {DictSet(d, "name", Str("cv.txt")) : d \in Dicts({"skills", "contact"}, SectionValues)}

InitExport ==
    /\ GROQ_API_KEY = REAL_KEY
    /\ page = "candidate_dashboard"
    /\ logged_in = TRUE
    /\ user_type = "candidate"
    /\ parsed \in StructuredCVs
    /\ full_text = Text("extracted", "cv.txt")
    /\ excel_data = DataFrame(parsed)
    /\ candidate_uploaded_resumes = <<UploadedFile("cv.txt", "txt", TRUE)>>
    /\ candidate_jd_list = <<>>
    /\ candidate_match_results = <<>>
    /\ iq_output = <<>>
    /\ interview_qa = <<>>
    /\ evaluation_report = ""
    /\ session_keys = AllInterviewKeys
    /\ rendered = "candidate_dashboard"
    /\ last = Op("start", <<>>)
    /\ llm_reply = <<>>
    /\ result = <<>>

\* cv_management_tab_content(), lines 436-440 and 508-517: with a named CV
\* loaded, "Download Parsed JSON" hands out json_string
DownloadParsedJson ==
    /\ rendered = "candidate_dashboard"
    /\ Truthy(DictGet(parsed, "name", Null))
    /\ result' = json_dumps(Dict(parsed))
    /\ last' = Op("download_json", <<>>)
    /\ UNCHANGED <<sessionVars, llm_reply>>

NextExport == DownloadParsedJson

SpecExport == InitExport /\ [][NextExport]_vars

(***************************************************************************)
(* JD Management, lines 823-914, on every metadata reply within the        *)
(* bounds: the candidate dashboard with no job description yet.            *)
(***************************************************************************)
MetaAlphabet == {LBRACE, RBRACE, Key("role"), Key("name"), Key("content"), StrLit("x")}

MetaReplies == StringsUpTo(MetaAlphabet, MaxJsonLen)

URLs == {Url("https://www.linkedin.com/jobs/view/123/", "123"),
         Url("https://example.com/careers", None)}

JDFiles == {UploadedFile("jd.txt", "txt", TRUE), UploadedFile("jd.pdf", "pdf", FALSE)}

\* Every metadata call of the run is answered with llm_reply
MetaLLMsFor(inputs) == [k \in 1..Len(inputs) |-> LLM("none", llm_reply)]

UrlLLMs(urls, failure) == [k \in 1..Len(urls) |-> LLM(failure, <<>>)]

InitJD ==
    /\ CandidateWithJDs(0)
    /\ llm_reply \in MetaReplies

NextJD ==
    \/ \E texts \in SeqsUpTo(JDTexts, MaxJDs) : AddJDFromText(texts, MetaLLMsFor(texts))
    \/ \E urls \in SeqsUpTo(URLs, MaxJDs), failure \in {"none", "call"} :
          AddJDFromURL(urls, UrlLLMs(urls, failure), MetaLLMsFor(urls))
    \/ \E files \in SeqsUpTo(JDFiles, MaxJDs) : AddJDFromFile(files, MetaLLMsFor(files))

SpecJD == InitJD /\ [][NextJD]_vars

(***************************************************************************)
(* Interview question parsing, lines 1210-1235, on replies put together    *)
(* from level marks and question lines.                                    *)
(***************************************************************************)
MaxLines == 2        \* pieces of a reply with interview questions

Levels == {<<"E", "a", "s", "y">>, <<"H", "a", "r", "d">>}

\* "Qk: text"
QuestionLine(k, text) == <<"Q", k, ":", " ">> \o text

\* "[Level]"
LevelMark(level) == <<"[">> \o level \o <<"]">>

QuestionTexts == {<<"W", "h", "y", "?">>, <<"H", "o", "w", "?">>}

\* A piece of a reply: a level mark or none, then nothing, a blank or a line
\* break, then a question line, a line that ends with "]", or nothing
Pieces ==
    {mark \o sep \o question :
        mark \in {<<>>} \cup {LevelMark(level) : level \in Levels},
        sep \in {<<>>, <<" ">>, <<"\n">>},
        question \in {<<>>, QuestionLine("1", <<"W", "h", "y", "?">>), QuestionLine("2", <<"H", "o", "w", "?">>), <<"q", ":", "o", "k", "]">>}}

\* "\n".join(lines)
RECURSIVE JoinLines(_)
JoinLines(lines) ==
    IF lines = <<>> THEN <<>>
    ELSE IF Len(lines) = 1 THEN lines[1]
    ELSE lines[1] \o <<"\n">> \o JoinLines(Tail(lines))

QuestionReplies == {JoinLines(pieces) : pieces \in StringsUpTo(Pieces, MaxLines)}

InitInterview ==
    /\ CandidateWithJDs(0)
    /\ llm_reply \in QuestionReplies

NextInterview ==
    \E failure \in {"none", "call"} : GenerateInterviewQuestions(LLM(failure, llm_reply))

SpecInterview == InitInterview /\ [][NextInterview]_vars

(***************************************************************************)
(* Resume parsing next to interview preparation: the Parse buttons of      *)
(* lines 751-805 pressed with and without questions, answers and a report  *)
(* in the session.                                                         *)
(***************************************************************************)
ResumeLLMs == ParseLLMs \cup {LLM("call", <<>>), LLM("client", <<>>)}

InterviewLLMs ==
    {LLM("none", JoinLines(<<LevelMark(<<"E", "a", "s", "y">>),
                             QuestionLine("1", <<"W", "h", "y", "?">>)>>)),
     LLM("call", <<>>)}

Answers == {"", "ok"}

ReportLLMs == {LLM("none", "Report"), LLM("call", "")}

\* The session of a candidate right after the login
InitResume ==
    /\ GROQ_API_KEY \in {DUMMY_KEY, REAL_KEY}
    /\ page = "candidate_dashboard"
    /\ logged_in = TRUE
    /\ user_type = "candidate"
    /\ parsed = <<>>
    /\ full_text = EmptyText
    /\ excel_data = NoDataFrame
    /\ candidate_uploaded_resumes = <<>>
    /\ iq_output = <<>>
    /\ interview_qa = <<>>
    /\ evaluation_report = ""
    /\ session_keys = {}
    /\ candidate_jd_list = <<>>
    /\ candidate_match_results = <<>>
    /\ rendered = "candidate_dashboard"
    /\ last = Op("start", <<>>)
    /\ llm_reply = <<>>
    /\ result = <<>>

NextResume ==
    \/ \E file \in Files : UploadFile(file)
    \/ RemoveFile
    \/ \E llm \in ResumeLLMs : ParseUploadedFile(llm)
    \/ \E pasted_text \in PastedTexts, llm \in ResumeLLMs : ParsePastedText(pasted_text, llm)
    \/ \E llm \in InterviewLLMs : GenerateInterviewQuestions(llm)
    \/ \E answers \in StringsUpTo(Answers, MaxLines), llm \in ReportLLMs :
           SubmitAnswers(answers, llm)

SpecResume == InitResume /\ [][NextResume]_vars

(***************************************************************************)
(* CV Management: the editable table and "Save Edited Data", lines         *)
(* 450-499.  A cell's content is kept twice: as the text itself and as the *)
(* JSON tokens of content.replace("'", '"'), which line 490 loads.         *)
(***************************************************************************)
Content(tokens, text) == [tokens |-> tokens, text |-> text]

\* repr(v) of a value json.loads can give: 'text', a number, None,
\* [item, ...] and {'key': item, ...}.  With the quotes replaced a string
\* literal is a JSON string literal (the texts here hold no quote); None is
\* no JSON.
RECURSIVE repr(_), repr_items(_, _), repr_members(_, _)
repr(v) ==
    CASE v.t = "str" -> Content(<<StrLit(v.v)>>, "'" \o v.v \o "'")
      [] v.t = "num" -> Content(<<NumLit(v.v)>>, v.v)
      [] v.t = "null" -> Content(<<TEXT>>, "None")
      [] v.t = "list" ->
            LET items == repr_items(v.v, 1)
            IN  Content(<<LBRACKET>> \o items.tokens \o <<RBRACKET>>,
                        "[" \o items.text \o "]")
      [] v.t = "dict" ->
            LET members == repr_members(v.v, 1)
            IN  Content(<<LBRACE>> \o members.tokens \o <<RBRACE>>,
                        "{" \o members.text \o "}")

repr_items(xs, i) ==
    IF i > Len(xs) THEN Content(<<>>, "")
    ELSE LET item == repr(xs[i])
             rest == repr_items(xs, i + 1)
         IN  IF i = Len(xs) THEN item
             ELSE Content(item.tokens \o <<COMMA, WS>> \o rest.tokens,
                          item.text \o ", " \o rest.text)

repr_members(ps, i) ==
    IF i > Len(ps) THEN Content(<<>>, "")
    ELSE LET item == repr(ps[i].v)
             member == Content(<<Key(ps[i].k)>> \o item.tokens,
                               "'" \o ps[i].k \o "': " \o item.text)
             rest == repr_members(ps, i + 1)
         IN  IF i = Len(ps) THEN member
             ELSE Content(member.tokens \o <<COMMA, WS>> \o rest.tokens,
                          member.text \o ", " \o rest.text)

\* str(v) as text: a string is itself (a bare word, no JSON), anything else
\* its repr
py_str(v) == IF v.t = "str" THEN Content(<<TEXT>>, v.v) ELSE repr(v)

\* "\n---\n".join([str(item) for item in content]) from item i
RECURSIVE join_items(_, _)
join_items(xs, i) ==
    IF i > Len(xs) THEN Content(<<>>, "")
    ELSE IF i = Len(xs) THEN py_str(xs[i])
    ELSE LET rest == join_items(xs, i + 1)
         IN  Content(py_str(xs[i]).tokens \o <<WS, TEXT, WS>> \o rest.tokens,
                     py_str(xs[i]).text \o "\n---\n" \o rest.text)

\* format_content(content), lines 454-457
format_content(content) ==
    IF content.t = "list" THEN join_items(content.v, 1) ELSE py_str(content)

\* display_data, lines 459-463: a row for every key but 'name'
display_data(parsed_data) ==
    LET rows == [n \in 1..Len(parsed_data) |->
                    [Section |-> parsed_data[n].k,
                     Content |-> format_content(parsed_data[n].v)]]
    IN  SelectSeq(rows, LAMBDA row : row.Section # "name")

\* The loop of lines 481-495 from row `index`
RECURSIVE save_rows(_, _, _, _)
save_rows(old_parsed, new_parsed, edited_df, index) ==
    IF index > Len(edited_df) THEN new_parsed
    ELSE LET section == edited_df[index].Section
             content == edited_df[index].Content
             loaded == json_loads(content.tokens)
             value == IF DictGet(old_parsed, section, Null).t \in {"list", "dict"} /\ loaded.ok
                      THEN loaded.val
                      ELSE Str(content.text)
         IN  save_rows(old_parsed, DictSet(new_parsed, section, value), edited_df, index + 1)

\* "Save Edited Data", lines 436-440 and 479-499, with the table as the data
\* editor returns it
SaveEditedData(edited_df) ==
    /\ rendered = "candidate_dashboard"
    /\ Truthy(DictGet(parsed, "name", Null))
    /\ parsed' = save_rows(parsed, parsed, edited_df, 1)
    /\ excel_data' = [is_none |-> FALSE, rows |-> edited_df]
    /\ session_keys' = interview_keys_after(session_keys, TRUE, parsed')
    /\ last' = Op("save_edited", <<>>)
    /\ UNCHANGED <<GROQ_API_KEY, authVars, full_text, candidate_uploaded_resumes,
                   interviewVars, jdVars, rendered, fnVars>>

\* What the user can type into a cell
CellEdits == {Content(<<LBRACKET, StrLit("b"), RBRACKET>>, "[\"b\"]"),
              Content(<<TEXT>>, "b")}

\* The table unchanged, or with one cell edited
EditedTables(table) ==
    {table} \cup {[table EXCEPT ![row].Content = content] :
                     row \in 1..Len(table), content \in CellEdits}

NextSave ==
    \E edited_df \in EditedTables(display_data(parsed)) : SaveEditedData(edited_df)

SpecSave == InitExport /\ [][NextSave]_vars

(***************************************************************************)
(* The claims.                                                             *)
(***************************************************************************)
Results == candidate_match_results

\* The numeric score of a stored result: line 1027 on its overall_score (the
\* code deletes the field numeric_score at line 1059)
ScoreOf(r) == numeric_score_of(r.overall_score)

\* C1: after Run Match Analysis, the rank of each stored result is 1 plus
\* the number of results with a strictly higher numeric score (competition
\* ranking: ties share the higher rank, the next rank skips).
C1_CompetitionRanking ==
    last.op = "run_match" =>
        \A k \in 1..Len(Results) :
            Results[k].rank =
                1 + Cardinality({j \in 1..Len(Results) : ScoreOf(Results[j]) > ScoreOf(Results[k])})

Slash10At(s, d) ==
    /\ d + 2 <= Len(s)
    /\ s[d] = "/" /\ s[d + 1] = "1" /\ s[d + 2] = "0"

\* The N for which the keyword at i is followed by characters that satisfy
\* Gap, then the digits N, then optional whitespace, then "/10"
ScoresAt(s, i, Gap(_)) ==
    {SubSeq(s, x[1], x[2] - 1) :
        x \in {y \in ((i + 1)..Len(s)) \X ((i + 2)..Len(s)) :
                  /\ s[i] = KEYWORD
                  /\ y[1] < y[2]
                  /\ Run(s, i + 1, y[1], Gap)
                  /\ Run(s, y[1], y[2], IsDigit)
                  /\ \E d \in y[2]..Len(s) : Run(s, y[2], d, IsSpace) /\ Slash10At(s, d)}}

\* "Overall Fit Score: N/10", whatever the whitespace around N
PatternScoresAt(s, i) == ScoresAt(s, i, IsSpace)

\* The same with anything but digits between the keyword and N
LenientScoresAt(s, i) == ScoresAt(s, i, NotDigit)

\* The one job description of SpecScore was matched and the analysis returned
\* the reply llm_reply
Extracted ==
    /\ last.op = "run_match"
    /\ Len(Results) = 1
    /\ Results[1].overall_score # ErrorStr

First(places) == CHOOSE i \in places : \A j \in places : i <= j

\* C2 as claimed: a reply that contains "Overall Fit Score: N/10" yields N
\* (the N of the first, if there are several), and a reply where that pattern
\* is missing or malformed yields 'N/A' (numeric score -1).
C2_PatternOrSentinel ==
    Extracted =>
        LET s == Results[1].full_analysis
            score == Results[1].overall_score
            places == {i \in 1..Len(s) : PatternScoresAt(s, i) # {}}
        IN  /\ places # {} => PatternScoresAt(s, First(places)) = {score}
            /\ places = {} => score = NA /\ ScoreOf(Results[1]) = -1

\* C2 as amended: the extractor yields the digits N at the first keyword
\* (any letter case) that is followed by characters that are no digits, the
\* digits N, optional whitespace and "/10" -- so "Overall Fit Score: N/10"
\* at the first keyword of the reply yields N -- and 'N/A' (numeric score -1)
\* exactly when no keyword is followed so.
C2_FirstLenientPattern ==
    Extracted =>
        LET s == Results[1].full_analysis
            score == Results[1].overall_score
            places == {i \in 1..Len(s) : LenientScoresAt(s, i) # {}}
            keywords == {i \in 1..Len(s) : s[i] = KEYWORD}
        IN  /\ s = llm_reply
            /\ places = {} => score = NA /\ ScoreOf(Results[1]) = -1
            /\ places # {} => /\ LenientScoresAt(s, First(places)) = {score}
                              /\ ScoreOf(Results[1]) = int(score)
            /\ keywords # {} =>
                  \A N \in PatternScoresAt(s, First(keywords)) : score = N

\* A reply whose first keyword is not followed by a score and whose second
\* reads "Overall Fit Score: 7/10": 7 was extracted
C2_Witness ==
    /\ Extracted
    /\ llm_reply = <<"K", "/", "1", "0", " ">> \o Score7
    /\ Results[1].overall_score = <<"7">>

C5_SortedByScore ==
    last.op = "run_match" =>
        \A i, j \in 1..Len(Results) :
            i < j => /\ ScoreOf(Results[i]) >= ScoreOf(Results[j])
                     /\ ScoreOf(Results[i]) = -1 => ScoreOf(Results[j]) = -1

\* Three job descriptions whose analyses gave no score, 7 and 9, in this
\* order, were matched: 9 is stored first and 'N/A' last
C5_Witness ==
    /\ last.op = "run_match"
    /\ Len(Results) = 3
    /\ llm_reply = <<Returned(NoScore), Returned(Score7), Returned(Score9)>>
    /\ Results[1].overall_score = <<"9">>
    /\ Results[2].overall_score = <<"7">>
    /\ Results[3].overall_score = NA

\* C6: the fit score stored in a result is 'N/A', 'Error' or an integer from
\* 0 to 10, whatever the reply.
C6_ScoreInRange ==
    \A k \in 1..Len(Results) :
        \/ Results[k].overall_score \in {NA, ErrorStr}
        \/ /\ isdigit(Results[k].overall_score)
           /\ int(Results[k].overall_score) \in 0..10

\* Some part of the reply is a JSON object
ContainsJsonObject(reply) ==
    \E i \in 1..Len(reply) : \E j \in i..Len(reply) :
        LET loaded == json_loads(SubSeq(reply, i, j))
        IN  loaded.ok /\ loaded.val.t = "dict"

\* C7: when the LLM call fails or the reply holds no parseable JSON object,
\* parse_and_store_resume returns a result with the key 'error' and without
\* the key 'parsed', and extract_jd_metadata returns the fallback mapping:
\* role 'N/A (Error)', job_type 'N/A' and a list key_skills.
C7_NoJsonObjectHandled ==
    (/\ last.op \in {"parse_and_store_resume", "extract_jd_metadata"}
     /\ last.arg # "none" \/ ~ContainsJsonObject(llm_reply)) =>
        /\ last.op = "parse_and_store_resume" =>
              "error" \in DOMAIN result /\ "parsed" \notin DOMAIN result
        /\ last.op = "extract_jd_metadata" =>
              /\ result.t = "dict"
              /\ DictGet(result.v, "role", Null) = Str("N/A (Error)")
              /\ DictGet(result.v, "job_type", Null) = Str("N/A")
              /\ DictGet(result.v, "key_skills", Null).t = "list"

\* u and w are the same but for the case of letters
SameIgnoringCase(u, w) ==
    /\ Len(u) = Len(w)
    /\ \A k \in 1..Len(u) :
          \/ u[k] = w[k]
          \/ \E n \in 1..Len(UpperLetters) :
                {u[k], w[k]} = {UpperLetters[n], LowerLetters[n]}

LoggedInAs(role, dashboard) ==
    logged_in' = TRUE /\ user_type' = role /\ page' = dashboard

\* C8: a login with a username that is 'candidate', 'admin' or 'hiring' but
\* for letter case sets logged_in, user_type to the role and page to the
\* role's dashboard, whatever the password; a login with any other username
\* leaves logged_in, user_type and page as they are.
C8_Login ==
    [][\A username \in Usernames, password \in Passwords :
          LoginSubmit(username, password) =>
              IF SameIgnoringCase(username, CANDIDATE)
              THEN LoggedInAs("candidate", "candidate_dashboard")
              ELSE IF SameIgnoringCase(username, ADMIN)
              THEN LoggedInAs("admin", "admin_dashboard")
              ELSE IF SameIgnoringCase(username, HIRING)
              THEN LoggedInAs("hiring", "hiring_dashboard")
              ELSE UNCHANGED authVars]_vars

\* 'hirinG' was submitted and the hiring manager is logged in
C8_Witness ==
    /\ last = Op("login_submit", <<"h", "i", "r", "i", "n", "G">>)
    /\ logged_in = TRUE
    /\ user_type = "hiring"
    /\ page = "hiring_dashboard"

Dashboards == {"candidate_dashboard", "admin_dashboard", "hiring_dashboard"}

\* C9: after Log Out in the hiring dashboard logged_in is False, user_type is
\* None and page is 'login'; the next run renders the login page, and no
\* dashboard is rendered until a login succeeds.
C9_HiringLogout ==
    [][/\ last'.op = "hiring_logout" =>
             logged_in' = FALSE /\ user_type' = None /\ page' = "login"
       /\ last.op = "hiring_logout" /\ last'.op = "rerun" => rendered' = "login"
       /\ rendered \notin Dashboards /\ rendered' \in Dashboards =>
             last'.op = "login_submit"]_vars

\* C10: after Log Out in the candidate dashboard the next run of the main
\* script renders the login page, and the candidate dashboard is not rendered
\* again until a login succeeds.
C10_CandidateLogout ==
    [][/\ last'.op = "candidate_logout" => rendered' = "login"
       /\ rendered # "candidate_dashboard" /\ rendered' = "candidate_dashboard" =>
             last'.op = "login_submit"]_vars

\* The entries a run appended have the names and texts the run computed
AppendedAsComputed(added) ==
    \A k \in 1..Len(added.computed) :
        LET jd_item == candidate_jd_list'[Len(candidate_jd_list) + k]
        IN  /\ DictGet(jd_item, "name", Null) = Str(added.computed[k].name)
            /\ DictGet(jd_item, "content", Null) = Str(added.computed[k].content)

\* C11: an entry appended to candidate_jd_list by URL, pasted text or file
\* has 'name' equal to the name computed for it and 'content' equal to the
\* extracted JD text, whatever mapping extract_jd_metadata returned.
C11_NameAndContentKept ==
    [][/\ \A texts \in SeqsUpTo(JDTexts, MaxJDs) :
             AddJDFromText(texts, MetaLLMsFor(texts)) =>
                 AppendedAsComputed(add_jds_from_text(candidate_jd_list, texts,
                                                      MetaLLMsFor(texts), 1, <<>>))
       /\ \A urls \in SeqsUpTo(URLs, MaxJDs), failure \in {"none", "call"} :
             AddJDFromURL(urls, UrlLLMs(urls, failure), MetaLLMsFor(urls)) =>
                 AppendedAsComputed(add_jds_from_url(candidate_jd_list, urls,
                                                     UrlLLMs(urls, failure),
                                                     MetaLLMsFor(urls), 1, 0, <<>>))
       /\ \A files \in SeqsUpTo(JDFiles, MaxJDs) :
             AddJDFromFile(files, MetaLLMsFor(files)) =>
                 AppendedAsComputed(add_jds_from_file(candidate_jd_list, files,
                                                      MetaLLMsFor(files), 1, <<>>))]_vars

\* The lines '[Level] Qk: text' of a reply in the prescribed format, as
\* <<level, k, text>>
PrescribedLine(q) == LevelMark(q[1]) \o <<" ">> \o QuestionLine(q[2], q[3])

PrescribedReplies ==
    StringsUpTo(Levels \X {"1", "2"} \X QuestionTexts, MaxLines) \ {<<>>}

EndsWith(s, t) == Len(s) >= Len(t) /\ SubSeq(s, Len(s) - Len(t) + 1, Len(s)) = t

\* C12: for a reply whose lines each read '[Level] Qk: text', Generate
\* Interview Questions stores in interview_qa one entry per line, with the
\* line's level, its question text and an empty answer.
C12_OneEntryPerLine ==
    \A qs \in PrescribedReplies :
        (/\ last.op = "generate_questions"
         /\ iq_output = llm_reply
         /\ llm_reply = JoinLines([k \in 1..Len(qs) |-> PrescribedLine(qs[k])])) =>
            /\ Len(interview_qa) = Len(qs)
            /\ \A k \in 1..Len(qs) :
                  /\ interview_qa[k].level = qs[k][1]
                  /\ EndsWith(interview_qa[k].question, qs[k][3])
                  /\ interview_qa[k].answer = ""

\* C13: Save Edited Data with no cell of the table changed leaves parsed as
\* it was: the same keys, and for every section the same value of the same
\* type.
C13_SaveWithoutEdits ==
    [][SaveEditedData(display_data(parsed)) =>
          /\ DictKeys(parsed') = DictKeys(parsed)
          /\ \A key \in DictKeys(parsed) :
                /\ DictGet(parsed', key, Null).t = DictGet(parsed, key, Null).t
                /\ DictGet(parsed', key, Null) = DictGet(parsed, key, Null)]_vars

\* C14: whenever Run Match Analysis calls evaluate_jd_fit, parsed holds no
\* key 'error': a resume whose last parse failed is refused.
C14_MatchNeedsParsedResume ==
    (last.op = "run_match" /\ candidate_match_results # <<>>) => ~DictHas(parsed, "error")

(***************************************************************************)
(* The Parse buttons and the interview state.                              *)
(***************************************************************************)
\* The result of the parse a press of a Parse button runs in this state
FileParse(llm) ==
    parse_and_store_resume(GROQ_API_KEY, candidate_uploaded_resumes[1], "file", llm)

TextParse(pasted_text, llm) ==
    parse_and_store_resume(GROQ_API_KEY, pasted_text, "text", llm)

Keys(dict) == {dict[i].k : i \in 1..Len(dict)}

\* What claim C15 says of a press whose parse gave res
FailureStored(res) ==
    "error" \in DOMAIN res =>
        /\ Keys(parsed') = {"error", "name"}
        /\ Len(parsed') = 2
        /\ DictGet(parsed', "error", Null) = Str(res.error)
        /\ DictGet(parsed', "name", Null) = Str(res.name)
        /\ full_text' = res.full_text
        /\ excel_data' = excel_data
        /\ iq_output' = iq_output
        /\ interview_qa' = interview_qa
        /\ evaluation_report' = evaluation_report

\* C15: when the parse a Parse button runs fails, parsed becomes a dictionary
\* of exactly the keys 'error' and 'name' with the result's error and name,
\* full_text becomes the result's text, and excel_data, iq_output,
\* interview_qa and evaluation_report keep the values they had.
C15_FailedParseKeepsState ==
    [][/\ \A llm \in ResumeLLMs : ParseUploadedFile(llm) => FailureStored(FileParse(llm))
       /\ \A pasted_text \in PastedTexts, llm \in ResumeLLMs :
              ParsePastedText(pasted_text, llm) => FailureStored(TextParse(pasted_text, llm))]_vars

\* A failed parse has left questions, an answer, a report and the table of
\* an earlier resume in the session
C15_Witness ==
    /\ last.op \in {"parse_file", "parse_text"}
    /\ DictHas(parsed, "error")
    /\ last.arg = interviewVars
    /\ iq_output # <<>>
    /\ interview_qa # <<>>
    /\ interview_qa[1].answer # ""
    /\ evaluation_report # ""
    /\ ~excel_data.is_none

\* What claim C16 says of a press whose parse gave res
SuccessStored(res) ==
    "error" \notin DOMAIN res =>
        /\ Keys(parsed') = Keys(res.parsed) \cup {"name"}
        /\ \A key \in Keys(res.parsed) \ {"name"} :
               DictGet(parsed', key, Null) = DictGet(res.parsed, key, Null)
        /\ DictGet(parsed', "name", Null) = Str(res.name)
        /\ full_text' = res.full_text
        /\ excel_data' = res.excel_data
        /\ iq_output' = <<>>
        /\ interview_qa' = <<>>
        /\ evaluation_report' = ""

\* C16: when the parse a Parse button runs succeeds, parsed, full_text and
\* excel_data are replaced by the result's values, parsed['name'] is the
\* result's name, and iq_output, interview_qa and evaluation_report are
\* reset to '', [] and ''.
C16_ParseClearsInterview ==
    [][/\ \A llm \in ResumeLLMs : ParseUploadedFile(llm) => SuccessStored(FileParse(llm))
       /\ \A pasted_text \in PastedTexts, llm \in ResumeLLMs :
              ParsePastedText(pasted_text, llm) => SuccessStored(TextParse(pasted_text, llm))]_vars

\* A parse has succeeded in a session that held questions, an answer and a
\* report, and the name the LLM gave is replaced by the result's name
C16_Witness ==
    /\ last.op \in {"parse_file", "parse_text"}
    /\ ~DictHas(parsed, "error")
    /\ last.arg[1] # <<>>
    /\ last.arg[2] # <<>>
    /\ last.arg[2][1].answer # ""
    /\ last.arg[3] # ""
    /\ interviewVars = <<<<>>, <<>>, "">>
    /\ \E i \in 1..Len(parsed) : parsed[i].k = "skills"
    /\ DictGet(parsed, "name", Null) \in {Str(PASTED_NAME), Str("cv.txt")}
    /\ ~excel_data.is_none

====
